---- MODULE Spec2Model ----
(***************************************************************************)
(* Model of tools/SalesTrendAnalyzer.py: the analyze_trends pipeline       *)
(* (date-bounds lookup, aggregation query, metric analyzer, visualization) *)
(* and the pure helpers it calls (_calculate_growth, the four analyzers).  *)
(*                                                                         *)
(* Numbers.  pandas computes on IEEE doubles: a division by zero raises    *)
(* nothing and yields inf, -inf or NaN.  A value is modelled as an exact   *)
(* rational in lowest terms, or one of the three special values; rounding  *)
(* is not modelled.                                                        *)
(***************************************************************************)
EXTENDS Integers, Sequences, FiniteSets, TLC

\* ------------------------------------------------------------------ bounds
MaxLen == 3          \* longest series handed to _calculate_growth alone
MaxMag == 2          \* its values range over -MaxMag..MaxMag
MaxRows == 2         \* most rows the aggregation query returns
MaxRevenue == 1      \* revenue of a row ranges over 0..MaxRevenue

\* ------------------------------------------------------- program constants
DefaultTopN == 5     \* top_n: int = 5

NULL == "None"

\* ------------------------------------------------------- float arithmetic
Abs(i) == IF i < 0 THEN -i ELSE i

RECURSIVE Gcd(_, _)
Gcd(a, b) == IF b = 0 THEN a ELSE Gcd(b, a % b)

Inf  == [k |-> "inf",  n |-> 0, d |-> 1]
NInf == [k |-> "ninf", n |-> 0, d |-> 1]
NaN  == [k |-> "nan",  n |-> 0, d |-> 1]

\* n/d with d # 0, in lowest terms with a positive denominator
Frac(n, d) ==
    LET g == Gcd(Abs(n), Abs(d))
        s == IF d < 0 THEN -1 ELSE 1
    IN  [k |-> "fin", n |-> (s * n) \div g, d |-> (s * d) \div g]

FromInt(i) == [k |-> "fin", n |-> i, d |-> 1]

IsFinite(x) == x.k = "fin"
IsZero(x)   == x.k = "fin" /\ x.n = 0
\* -1, 0, 1 for an ordered value (NaN has no sign)
Sign(x) ==
    CASE x.k = "inf"  -> 1
      [] x.k = "ninf" -> -1
      [] x.k = "nan"  -> 0
      [] OTHER        -> IF x.n > 0 THEN 1 ELSE IF x.n < 0 THEN -1 ELSE 0

FNeg(x) ==
    CASE x.k = "inf"  -> NInf
      [] x.k = "ninf" -> Inf
      [] x.k = "nan"  -> NaN
      [] OTHER        -> Frac(-x.n, x.d)

FAdd(x, y) ==
    CASE x.k = "nan" \/ y.k = "nan"      -> NaN
      [] x.k = "fin" /\ y.k = "fin"      -> Frac(x.n * y.d + y.n * x.d, x.d * y.d)
      [] x.k = "fin"                     -> y
      [] y.k = "fin"                     -> x
      [] x.k = y.k                       -> x
      [] OTHER                           -> NaN      \* inf + -inf

FSub(x, y) == FAdd(x, FNeg(y))

FMul(x, y) ==
    CASE x.k = "nan" \/ y.k = "nan"      -> NaN
      [] x.k = "fin" /\ y.k = "fin"      -> Frac(x.n * y.n, x.d * y.d)
      [] Sign(x) = 0 \/ Sign(y) = 0      -> NaN      \* 0 * inf
      [] Sign(x) = Sign(y)               -> Inf
      [] OTHER                           -> NInf

FDiv(x, y) ==
    CASE x.k = "nan" \/ y.k = "nan"      -> NaN
      [] x.k # "fin" /\ y.k # "fin"      -> NaN      \* inf / inf
      [] x.k # "fin"                     -> IF Sign(y) < 0 THEN FNeg(x) ELSE x
      [] y.k # "fin"                     -> FromInt(0)
      [] y.n = 0                         -> IF x.n > 0 THEN Inf
                                            ELSE IF x.n < 0 THEN NInf ELSE NaN
      [] OTHER                           -> Frac(x.n * y.d, x.d * y.n)

\* ------------------------------------------------------ _calculate_growth
calculate_growth_no_zero_guard(series) ==
    IF Len(series) < 2 THEN FromInt(0)
    ELSE LET first_value == series[1]
             last_value  == series[Len(series)]
         IN  FMul(FDiv(FSub(last_value, first_value), first_value), FromInt(100))

calculate_growth_swapped(series) ==
    IF Len(series) < 2 THEN FromInt(0)
    ELSE LET first_value == series[1]
             last_value  == series[Len(series)]
         IN  IF IsZero(first_value) THEN FromInt(0)
             ELSE FMul(FDiv(FSub(first_value, last_value), first_value), FromInt(100))

calculate_growth(series) ==
    IF Len(series) < 2 THEN FromInt(0)
    ELSE LET first_value == series[1]
             last_value  == series[Len(series)]
         IN  IF IsZero(first_value) THEN FromInt(0)
             ELSE FMul(FDiv(FSub(last_value, first_value), first_value), FromInt(100))

\* ------------------------------------------------------------ the analyzer
VALID_METRICS == {"revenue", "units", "aov", "margin"}
VALID_DIMENSIONS == {"product", "category", "channel", "region", "customer", NULL}

\* The caller's dates and the dates the fact source holds
CallerStart == "2024-01-01"
CallerEnd   == "2024-12-31"
SourceMin   == "2024-01-01"
SourceMax   == "2024-12-31"

VARIABLES
    metric, dimension, top_n, include_visualization,   \* fields set by __init__
    start_date, end_date,      \* analyze_trends' parameters, reassigned at 224-227
    srcEmpty,                  \* the fact source holds no non-deleted, non-excluded row
    pc,                        \* position in analyze_trends
    conns,                     \* connections opened and not closed
    calls,                     \* what the call has done so far, in order
    params,                    \* parameters bound to the aggregation query
    data,                      \* rows the aggregation query returned
    analysis,                  \* payload of the metric analyzer
    result,                    \* what analyze_trends returned
    series, growth             \* input and output of _calculate_growth called alone

vars == <<metric, dimension, top_n, include_visualization, start_date, end_date,
          srcEmpty, pc, conns, calls, params, data, analysis, result, series, growth>>

\* Columns of the frame read_sql_query builds from the SELECT clause
Columns(dim) ==
    {"period", "revenue", "units", "orders"}
        \cup (IF dim # NULL THEN {"dimension_id", "dimension_name"} ELSE {})

\* Optional values: None is the empty set, a present value the singleton
None == {}
Some(x) == {x}
Get(o) == CHOOSE x \in o : TRUE

\* --------------------------------------------------------- the row sets
\* Rows as the aggregation query of _build_query returns them: one row per
\* group (period, or period and dimension), ORDER BY period, dimension_id.
\* A period is the rank of its bucket key; dimension_name is the label of
\* dimension_id (for region and customer the same column is selected twice).
\* A group holds no order or one, with one unit to the order.
OrderCounts == {0, 1}
DimIds == {1, 2}
Measures == {[revenue |-> r, units |-> o, orders |-> o] :
                r \in 0..MaxRevenue, o \in OrderCounts}

MkRow(dim, p, id, m) ==
    IF dim = NULL
    THEN [period |-> p, revenue |-> m.revenue, units |-> m.units, orders |-> m.orders]
    ELSE [period |-> p, revenue |-> m.revenue, units |-> m.units, orders |-> m.orders,
          dimension_id |-> id, dimension_name |-> id]

\* The (period, dimension_id) keys that may follow the rows of s
NextKeys(dim, s) ==
    IF s = <<>>
    THEN {<<1, id>> : id \in (IF dim = NULL THEN {0} ELSE DimIds)}
    ELSE LET last == s[Len(s)]
         IN  IF dim = NULL
             THEN {<<last.period + 1, 0>>}
             ELSE {<<last.period, id>> : id \in {j \in DimIds : j > last.dimension_id}}
                  \cup {<<last.period + 1, id>> : id \in DimIds}

RECURSIVE RowSeqs(_, _)
RowSeqs(dim, n) ==
    IF n = 0 THEN {<<>>}
    ELSE LET shorter == RowSeqs(dim, n - 1)
         IN  shorter \cup
             UNION {{Append(s, MkRow(dim, key[1], key[2], m)) :
                        key \in NextKeys(dim, s), m \in Measures} :
                    s \in {t \in shorter : Len(t) = n - 1}}

RowSets(dim) == RowSeqs(dim, MaxRows)

\* ---------------------------------------------------------- pandas helpers
\* data[col] for a numeric column
Col(rows, col) == [i \in 1..Len(rows) |-> FromInt(rows[i][col])]

\* Series.sum(): NaN entries are skipped
RECURSIVE FSum(_)
FSum(s) ==
    IF s = <<>> THEN FromInt(0)
    ELSE LET h == Head(s)
         IN  IF h.k = "nan" THEN FSum(Tail(s)) ELSE FAdd(h, FSum(Tail(s)))

\* Series.mean(): NaN entries are skipped; NaN when nothing is left
FMean(s) ==
    LET kept == SelectSeq(s, LAMBDA x : x.k # "nan")
    IN  IF kept = <<>> THEN NaN ELSE FDiv(FSum(kept), FromInt(Len(kept)))

\* groupby(keys)[col].sum(): the total of col per group key
\* (cols is the tuple of grouping columns)
KeyOf(r, cols) == [c \in 1..Len(cols) |-> r[cols[c]]]

GroupKeys(rows, cols) == {KeyOf(rows[i], cols) : i \in 1..Len(rows)}

RECURSIVE IntSum(_, _)
IntSum(rows, col) ==
    IF rows = <<>> THEN 0 ELSE Head(rows)[col] + IntSum(Tail(rows), col)

GroupTotal(rows, col, cols, key) ==
    IntSum(SelectSeq(rows, LAMBDA r : KeyOf(r, cols) = key), col)

\* Order of the group keys in the grouped series (groupby sorts them)
\* (a key is the tuple of the grouping columns' values)
KeyLeq(a, b) ==
    \/ a[1] < b[1]
    \/ a[1] = b[1] /\ (Len(a) = 1 \/ a[2] <= b[2])

\* Series.nlargest(n): the n largest totals, descending, ties in series order
RECURSIVE NLargest(_, _, _)
NLargest(keys, total, n) ==
    IF n <= 0 \/ keys = {} THEN <<>>
    ELSE LET best == CHOOSE k \in keys : \A j \in keys :
                        total[k] > total[j] \/ (total[k] = total[j] /\ KeyLeq(k, j))
         IN  <<best>> \o NLargest(keys \ {best}, total, n - 1)

\* ------------------------------------------------------- metric analyzers
\* An analyzer returns its payload or raises: [ok, payload] or [ok, error]
Returned(payload) == [ok |-> TRUE, payload |-> payload]
Raised(error)     == [ok |-> FALSE, error |-> error]
KeyError(col)     == Raised("KeyError: " \o col)

DimKey == <<"dimension_id", "dimension_name">>

analyze_revenue(rows, dim, n) ==
    LET total_revenue == FSum(Col(rows, "revenue"))
        keys == GroupKeys(rows, DimKey)
        dimension_totals == [k \in keys |-> GroupTotal(rows, "revenue", DimKey, k)]
        top == NLargest(keys, dimension_totals, n)
    IN  Returned([status |-> "success",
                  total_revenue |-> total_revenue,
                  avg_daily_revenue |-> FMean(Col(rows, "revenue")),
                  revenue_growth |-> calculate_growth(Col(rows, "revenue")),
                  top_performers |->
                      IF dim # NULL /\ "dimension_id" \in Columns(dim)
                      THEN Some([i \in 1..Len(top) |->
                                  [id |-> top[i][1], name |-> top[i][2],
                                   value |-> FromInt(dimension_totals[top[i]]),
                                   share |-> FMul(FDiv(FromInt(dimension_totals[top[i]]),
                                                       total_revenue), FromInt(100))]])
                      ELSE None])

\* _get_top_performers groups by a column the query never selects
get_top_performers(rows, dim, col, n) ==
    LET group_col == IF dim = "product" THEN "Item ID" ELSE "Region ID"
        ColKey == <<group_col>>
        keys == GroupKeys(rows, ColKey)
        totals == [k \in keys |-> GroupTotal(rows, col, ColKey, k)]
        top == NLargest(keys, totals, n)
    IN  IF dim \notin {"product", "region"} THEN Returned(<<>>)
        ELSE IF group_col \notin Columns(dim) THEN KeyError(group_col)
        ELSE Returned([i \in 1..Len(top) |->
                        [id |-> top[i][1], value |-> FromInt(totals[top[i]]),
                         share |-> FMul(FDiv(FromInt(totals[top[i]]),
                                             FSum(Col(rows, col))), FromInt(100))]])

analyze_volume(rows, dim, n) ==
    LET top == IF dim # NULL THEN get_top_performers(rows, dim, "units", n)
               ELSE Returned(<<>>)
    IN  IF ~top.ok THEN top
        ELSE Returned([status |-> "success",
                       total_units |-> FSum(Col(rows, "units")),
                       avg_daily_units |-> FMean(Col(rows, "units")),
                       volume_growth |-> calculate_growth(Col(rows, "units")),
                       top_performers |-> IF dim # NULL THEN Some(top.payload) ELSE None])

\* data['aov'] = data['revenue'] / data['orders'], with no guard on orders = 0
AovSeries(rows) ==
    [i \in 1..Len(rows) |-> FDiv(FromInt(rows[i].revenue), FromInt(rows[i].orders))]

analyze_aov(rows) ==
    Returned([status |-> "success",
              avg_aov |-> FMean(AovSeries(rows)),
              aov_growth |-> calculate_growth(AovSeries(rows))])

\* _analyze_margin reads a cost column the query never selects
analyze_margin(rows, dim) ==
    LET margin == [i \in 1..Len(rows) |-> FromInt(rows[i].revenue - rows[i].cost)]
        margin_pct == [i \in 1..Len(rows) |-> FDiv(margin[i], FromInt(rows[i].revenue))]
    IN  IF "cost" \notin Columns(dim) THEN KeyError("cost")
        ELSE Returned([status |-> "success",
                       avg_margin |-> FMean(margin),
                       avg_margin_pct |-> FMean(margin_pct),
                       margin_growth |-> calculate_growth(margin)])

\* The dispatch on self.metric at lines 253-260
Analyzer(m, rows, dim, n) ==
    CASE m = "revenue" -> analyze_revenue(rows, dim, n)
      [] m = "units"   -> analyze_volume(rows, dim, n)
      [] m = "aov"     -> analyze_aov(rows)
      [] OTHER         -> analyze_margin(rows, dim)

\* _create_trend_visualization plots the columns sales, seasonal, trend and
\* residual, none of which the query selects: the first lookup raises
create_trend_visualization(dim) ==
    IF "sales" \notin Columns(dim) THEN KeyError("sales") ELSE Returned(None)

\* ---------------------------------------------------- the returned records
ErrorResult(message) == [status |-> "error", message |-> message]

SuccessResult(payload, start, end) ==
    [status |-> "success", analysis |-> payload,
     date_range |-> [start |-> start, end |-> end]]

NoDataMessage == "No data found for the specified period"

\* DataFrame.empty, as tested at line 246
DataFrameIsNone(rows) == FALSE

DataFrameEmpty(rows) == Len(rows) = 0

\* The handler at 275-280: where the call ends up and what it returns
ExceptHandlerReraise(message) == [pc |-> "raised", result |-> [status |-> "pending"]]

ExceptHandler(message) == [pc |-> "done", result |-> ErrorResult(message)]

\* An entry of calls: a query issued or a step run, and whether it raised
Call(op, ok) == [op |-> op, ok |-> ok]

\* ------------------------------------------------ get_available_date_range
\* SELECT MIN(..), MAX(..) without GROUP BY: always one row, of NULLs when no
\* transaction qualifies
LookupRows(empty) ==
    <<[min_date |-> IF empty THEN NULL ELSE SourceMin,
       max_date |-> IF empty THEN NULL ELSE SourceMax]>>

\* What the method returns, whether it issued its query, and the connections
\* it leaves open (conn.close() at line 100 is skipped when the query raises)
get_available_date_range(connectOk, queryOk, empty) ==
    LET date_range == LookupRows(empty)
    IN  IF ~connectOk
        THEN [ret |-> ErrorResult("unable to open database file"),
              issued |-> <<>>, open |-> 0]
        ELSE IF ~queryOk
        THEN [ret |-> ErrorResult("lookup query failed"),
              issued |-> <<Call("lookup", FALSE)>>, open |-> 1]
        ELSE IF date_range = <<>>
        THEN [ret |-> ErrorResult("No data available in the database"),
              issued |-> <<Call("lookup", TRUE)>>, open |-> 0]
        ELSE [ret |-> [status |-> "success",
                       min_date |-> date_range[1].min_date,
                       max_date |-> date_range[1].max_date],
              issued |-> <<Call("lookup", TRUE)>>, open |-> 0]

\* ------------------------------------------------------- analyze_trends
\* Lines 217-227: the date-bounds lookup and the resolution of the range
ResolveDateRange ==
    /\ pc = "start"
    /\ \E connectOk \in BOOLEAN, queryOk \in BOOLEAN :
          LET r == get_available_date_range(connectOk, queryOk, srcEmpty)
          IN  /\ calls' = calls \o r.issued
              /\ conns' = conns + r.open
              /\ IF r.ret.status = "error"
                 THEN /\ result' = ErrorResult(r.ret.message)
                      /\ pc' = "done"
                      /\ UNCHANGED <<start_date, end_date>>
                 ELSE /\ start_date' = IF start_date = NULL THEN r.ret.min_date
                                       ELSE start_date
                      /\ end_date' = IF end_date = NULL THEN r.ret.max_date
                                     ELSE end_date
                      /\ pc' = "ranged"
                      /\ UNCHANGED result
    /\ UNCHANGED <<metric, dimension, top_n, include_visualization, srcEmpty,
                   params, data, analysis, series, growth>>

\* The rows the fact source can answer with: none when no transaction
\* qualifies or a bound is NULL (BETWEEN NULL AND NULL matches nothing)
QueryRows ==
    IF srcEmpty \/ start_date = NULL \/ end_date = NULL THEN {<<>>}
    ELSE RowSets(dimension)

\* Lines 230-250: build the query, connect, bind, execute, close, test empty.
\* An exception goes to the handler at 275-280, past conn.close().
ExecuteQuery ==
    /\ pc = "ranged"
    /\ \E connectOk \in BOOLEAN, queryOk \in BOOLEAN, rows \in QueryRows :
          IF ~connectOk
          THEN /\ result' = ExceptHandler("unable to open database file").result
               /\ pc' = ExceptHandler("unable to open database file").pc
               /\ UNCHANGED <<conns, calls, params, data>>
          ELSE IF ~queryOk
          THEN /\ params' = <<start_date, end_date>>
               /\ calls' = Append(calls, Call("aggregate", FALSE))
               /\ conns' = conns + 1
               /\ result' = ExceptHandler("aggregation query failed").result
               /\ pc' = ExceptHandler("aggregation query failed").pc
               /\ UNCHANGED data
          ELSE /\ params' = <<start_date, end_date>>
               /\ calls' = Append(calls, Call("aggregate", TRUE))
               /\ data' = rows
               /\ UNCHANGED conns
               /\ IF DataFrameEmpty(rows)
                  THEN /\ result' = ErrorResult(NoDataMessage)
                       /\ pc' = "done"
                  ELSE /\ pc' = "queried"
                       /\ UNCHANGED result
    /\ UNCHANGED <<metric, dimension, top_n, include_visualization, start_date,
                   end_date, srcEmpty, analysis, series, growth>>

\* Lines 252-260: the metric analyzer; it re-raises into the handler
Analyze ==
    /\ pc = "queried"
    /\ LET a == Analyzer(metric, data, dimension, top_n)
       IN  /\ calls' = Append(calls, Call("analyze", a.ok))
           /\ IF a.ok
              THEN /\ analysis' = Some(a.payload)
                   /\ pc' = "analyzed"
                   /\ UNCHANGED result
              ELSE /\ result' = ExceptHandler(a.error).result
                   /\ pc' = ExceptHandler(a.error).pc
                   /\ UNCHANGED analysis
    /\ UNCHANGED <<metric, dimension, top_n, include_visualization, start_date,
                   end_date, srcEmpty, conns, params, data, series, growth>>

\* Lines 263-273 with include_visualization set
Visualize ==
    /\ pc = "analyzed"
    /\ include_visualization
    /\ LET v == create_trend_visualization(dimension)
       IN  /\ calls' = Append(calls, Call("visualize", v.ok))
           /\ result' = IF v.ok THEN SuccessResult(Get(analysis), start_date, end_date)
                        ELSE ExceptHandler(v.error).result
           /\ pc' = IF v.ok THEN "done" ELSE ExceptHandler(v.error).pc
    /\ UNCHANGED <<metric, dimension, top_n, include_visualization, start_date,
                   end_date, srcEmpty, conns, params, data, analysis, series, growth>>

\* Lines 266-273 with include_visualization clear
ReturnSuccess ==
    /\ pc = "analyzed"
    /\ ~include_visualization
    /\ result' = SuccessResult(Get(analysis), start_date, end_date)
    /\ pc' = "done"
    /\ UNCHANGED <<metric, dimension, top_n, include_visualization, start_date,
                   end_date, srcEmpty, conns, calls, params, data, analysis,
                   series, growth>>

Init ==
    /\ metric \in VALID_METRICS
    /\ dimension \in VALID_DIMENSIONS
    /\ top_n \in {1, DefaultTopN}
    /\ include_visualization \in BOOLEAN
    /\ start_date \in {NULL, CallerStart}
    /\ end_date \in {NULL, CallerEnd}
    /\ srcEmpty \in BOOLEAN
    /\ pc = "start"
    /\ conns = 0
    /\ calls = <<>>
    /\ params = <<>>
    /\ data = <<>>
    /\ analysis = None
    /\ result = [status |-> "pending"]
    /\ series = <<>>
    /\ growth = FromInt(0)

Next == ResolveDateRange \/ ExecuteQuery \/ Analyze \/ Visualize \/ ReturnSuccess

Spec == Init /\ [][Next]_vars

\* ------------------------------------------- _calculate_growth called alone
RECURSIVE IntSeqs(_)
IntSeqs(n) ==
    IF n = 0 THEN {<<>>}
    ELSE LET shorter == IntSeqs(n - 1)
         IN  shorter \cup {Append(s, v) : s \in {t \in shorter : Len(t) = n - 1},
                                          v \in (0 - MaxMag)..MaxMag}

InitGrowth ==
    /\ series \in IntSeqs(MaxLen)
    /\ pc = "growth_call"
    /\ growth = FromInt(0)
    /\ metric = "revenue"
    /\ dimension = NULL
    /\ top_n = 1
    /\ include_visualization = FALSE
    /\ start_date = NULL
    /\ end_date = NULL
    /\ srcEmpty = FALSE
    /\ conns = 0
    /\ calls = <<>>
    /\ params = <<>>
    /\ data = <<>>
    /\ analysis = None
    /\ result = [status |-> "pending"]

CalculateGrowth ==
    /\ pc = "growth_call"
    /\ growth' = calculate_growth([i \in 1..Len(series) |-> FromInt(series[i])])
    /\ pc' = "growth_done"
    /\ UNCHANGED <<metric, dimension, top_n, include_visualization, start_date,
                   end_date, srcEmpty, conns, calls, params, data, analysis,
                   result, series>>

NextGrowth == CalculateGrowth

SpecGrowth == InitGrowth /\ [][NextGrowth]_vars

\* ================================================================== claims
Issued(op)  == \E i \in 1..Len(calls) : calls[i].op = op
AggregateOk == \E i \in 1..Len(calls) : calls[i] = Call("aggregate", TRUE)
Last(s)     == s[Len(s)]

\* C1: analyze_trends lets no exception escape to its caller, whichever step
\* fails; what it returns has status success or error; a success record
\* carries the analyzer's payload and the date range, an error record a
\* message and no analysis.
C1_StructuredResult ==
    /\ pc # "raised"
    /\ pc = "done" =>
        /\ result.status \in {"success", "error"}
        /\ result.status = "success" =>
              /\ DOMAIN result = {"status", "analysis", "date_range"}
              /\ analysis # None
              /\ result.analysis = Get(analysis)
              /\ result.date_range = [start |-> start_date, end |-> end_date]
        /\ result.status = "error" =>
              /\ "message" \in DOMAIN result
              /\ "analysis" \notin DOMAIN result

\* The visualization step raised and the call still returned an error record
C1_Witness ==
    /\ pc = "done"
    /\ Issued("visualize")
    /\ ~Last(calls).ok
    /\ result.status = "error"

\* C2: when analyze_trends has returned, no connection it opened is open.
C2_AllConnectionsClosed == pc = "done" => conns = 0

\* C3: for metric revenue and a non-empty row set, analyze_trends returns
\* success and total_revenue is the sum of revenue over the returned rows.
C3_RevenueTotal ==
    (pc = "done" /\ metric = "revenue" /\ AggregateOk /\ data # <<>>) =>
        /\ result.status = "success"
        /\ result.analysis.total_revenue = FromInt(IntSum(data, "revenue"))

\* C4: when the aggregation query ran without fault and returned no row, the
\* call has returned the error "No data found for the specified period" and
\* neither a metric analyzer nor the visualization has run.
C4_EmptyRowSetIsError ==
    (AggregateOk /\ data = <<>>) =>
        /\ pc = "done"
        /\ result = [status |-> "error", message |-> NoDataMessage]
        /\ ~Issued("analyze")
        /\ ~Issued("visualize")

\* A populated source whose query matched nothing
C4_Witness ==
    /\ AggregateOk
    /\ data = <<>>
    /\ ~srcEmpty
    /\ pc = "done"
    /\ result.status = "error"

\* C5: with start or end unset and no qualifying transaction in the source,
\* the aggregation query is never issued and no NULL date is bound to it.
C5_NoQueryOnEmptySource ==
    (srcEmpty /\ (start_date = NULL \/ end_date = NULL)) =>
        /\ ~Issued("aggregate")
        /\ \A i \in 1..Len(params) : params[i] # NULL

\* C6: _calculate_growth returns ((last - first) / first) * 100 when the
\* series has at least 2 entries and first is not 0, and 0.0 otherwise.
C6_GrowthFormula ==
    pc = "growth_done" =>
        IF Len(series) >= 2 /\ series[1] # 0
        THEN /\ IsFinite(growth)
             /\ growth.n * series[1] = 100 * (Last(series) - series[1]) * growth.d
        ELSE growth = FromInt(0)

\* A series of two or more values with a non-zero first value and a change
C6_Witness ==
    /\ pc = "growth_done"
    /\ Len(series) >= 2
    /\ series[1] # 0
    /\ Last(series) # series[1]
    /\ growth # FromInt(0)

\* C7 as stated: for a series of at least 2 values of any sign, growth > 0
\* when last > first and growth < 0 when last < first.
C7_SignAnyFirst ==
    (pc = "growth_done" /\ Len(series) >= 2) =>
        /\ Last(series) > series[1] => Sign(growth) > 0
        /\ Last(series) < series[1] => Sign(growth) < 0

\* C7 amended: for a series of at least 2 values whose first value is
\* positive, growth > 0 when last > first and growth < 0 when last < first.
C7_SignPositiveFirst ==
    (pc = "growth_done" /\ Len(series) >= 2 /\ series[1] > 0) =>
        /\ Last(series) > series[1] => Sign(growth) > 0
        /\ Last(series) < series[1] => Sign(growth) < 0

\* A decline from a positive first value, reported as negative growth
C7_Witness ==
    /\ pc = "growth_done"
    /\ Len(series) >= 2
    /\ series[1] > 0
    /\ Last(series) < series[1]
    /\ Sign(growth) < 0

\* C8: the top_performers of a revenue analysis with a dimension are in
\* descending order of value, at most top_n and at most the number of
\* distinct dimension values long; every share is 100 * value / total_revenue
\* and within [0, 100], and the shares sum to at most 100.
RECURSIVE ShareSum(_)
ShareSum(top) == IF top = <<>> THEN FromInt(0) ELSE FAdd(Head(top).share, ShareSum(Tail(top)))

InPercentRange(x) == IsFinite(x) /\ 0 <= x.n /\ x.n <= 100 * x.d

C8_TopPerformers ==
    (metric = "revenue" /\ dimension # NULL /\ analysis # None) =>
        LET payload == Get(analysis)
            top == Get(payload.top_performers)
        IN  /\ \A i \in 1..(Len(top) - 1) :
                  top[i].value.n * top[i + 1].value.d >= top[i + 1].value.n * top[i].value.d
            /\ Len(top) <= top_n
            /\ Len(top) <= Cardinality({data[i].dimension_id : i \in 1..Len(data)})
            /\ \A i \in 1..Len(top) :
                  /\ InPercentRange(top[i].share)
                  /\ top[i].share.n * payload.total_revenue.n * top[i].value.d
                        = 100 * top[i].value.n * payload.total_revenue.d * top[i].share.d
            /\ InPercentRange(ShareSum(top))

\* C9: for metric aov and a row set with a row of orders = 0, the avg_aov and
\* aov_growth returned are neither an infinity nor a NaN.
C9_AovFinite ==
    (/\ pc = "done"
     /\ metric = "aov"
     /\ result.status = "success"
     /\ \E i \in 1..Len(data) : data[i].orders = 0) =>
        /\ IsFinite(result.analysis.avg_aov)
        /\ IsFinite(result.analysis.aov_growth)

\* C10: a call given both start and end issues no date-bounds lookup.
C10_NoLookupWhenBothGiven ==
    [][(pc = "start" /\ start_date # NULL /\ end_date # NULL) => calls' = calls]_vars

\* C11: for metric units over a non-empty row set, the analysis succeeds for
\* every dimension: with product or region its top_performers are ranked by
\* descending summed units and at most top_n long, with category, channel or
\* customer the list is empty; a dimension never makes the analysis an error.
C11_UnitsTopPerformers ==
    (metric = "units" /\ dimension # NULL /\ data # <<>> /\ Issued("analyze")) =>
        /\ analysis # None
        /\ LET top == Get(Get(analysis).top_performers)
           IN  IF dimension \in {"product", "region"}
               THEN /\ Len(top) <= top_n
                    /\ \A i \in 1..(Len(top) - 1) :
                          top[i].value.n * top[i + 1].value.d
                              >= top[i + 1].value.n * top[i].value.d
               ELSE top = <<>>

====
